---- MODULE Spec2Model ----
(***************************************************************************)
(* Model of the Buffett research pipeline of graph/orchestrator.py.        *)
(*                                                                         *)
(* run_pipeline builds a langgraph StateGraph over PipelineState, compiles *)
(* it and invokes it.  The compiled graph runs in supersteps ("waves"):    *)
(* every node triggered by the previous wave runs once on the channel      *)
(* values committed before the wave, the updates the nodes return are      *)
(* buffered, and they are written to the channels together when the wave   *)
(* is over; a node runs in the next wave when one of its incoming edges    *)
(* (or a conditional edge that resolved to it) fired in this one.          *)
(* A PipelineState key has no reducer, so it accepts one write per wave.   *)
(***************************************************************************)
EXTENDS Integers, Sequences, FiniteSets, TLC

\* ---------------------------------------------------------------- bounds
MaxTickers == 2
MaxCap == 1
MaxNews == 2
MaxFeed == 2
MaxSeries == 3
MaxDedup == 3
MaxSummarize == 7
MaxScored == 3
MaxAssessed == 2

\* ------------------------------------------------------- ticker universe
RawTickers == {"a", "A", "b"}
SymbolOrder == <<"A", "B", "C">>
Symbols == {SymbolOrder[i] : i \in 1..Len(SymbolOrder)}

\* str.strip().upper() on the raw strings of the model
Upper(t) == CASE t = "a" -> "A"
              [] t = "b" -> "B"
              [] t = "c" -> "C"
              [] OTHER -> t

Rank(s) == CHOOSE i \in 1..Len(SymbolOrder) : SymbolOrder[i] = s

RECURSIVE Sorted(_)
\* sorted(set): ascending list of the members of a set of symbols
Sorted(S) ==
    IF S = {} THEN <<>>
    ELSE LET m == CHOOSE x \in S : \A y \in S : Rank(x) <= Rank(y)
         IN <<m>> \o Sorted(S \ {m})

Range(s) == {s[i] : i \in 1..Len(s)}

SeqsUpTo(S, n) == UNION {[1..k -> S] : k \in 0..n}

\* Optional[float]: None or a number
None == <<>>
Some(v) == <<v>>

\* ------------------------------------------------------- tool responses
\* ToolResponse(ok, data): data is None on failure (_fail) and the payload
\* on success (_ok).
NoneData == [kind |-> "none", items |-> <<>>]
ListData(items) == [kind |-> "list", items |-> items]
FailResp == [ok |-> FALSE, data |-> NoneData]
OkResp(items) == [ok |-> TRUE, data |-> ListData(items)]
SymbolResps == {FailResp, OkResp(<<"c">>)}

\* ---------------------------------------------------------- the graph
Fields == {"params", "candidates", "fundamentals", "news_bundle", "valuation",
           "risk", "llm_strategy", "llm_narrative", "llm_tool_agent", "report_path"}

Nodes == {"supervisor", "screener", "analyst", "news", "valuation", "risk",
          "join_gate", "llm_strategy", "llm_narrative", "llm_tool_agent",
          "llm_join", "llm_fanout", "reporter", "noop"}

LLMNodes == {"llm_strategy", "llm_narrative", "llm_tool_agent"}

\* graph.add_edge(...) calls; START and END are the entry and exit markers
EdgesMiswired ==
    {<<"START", "supervisor">>, <<"supervisor", "screener">>,
     <<"screener", "analyst">>, <<"screener", "news">>,
     <<"analyst", "valuation">>, <<"valuation", "risk">>,
     <<"risk", "join_gate">>, <<"news", "join_gate">>,
     <<"llm_fanout", "llm_strategy">>, <<"llm_fanout", "llm_narrative">>,
     <<"llm_fanout", "reporter">>,
     <<"llm_strategy", "llm_join">>, <<"llm_narrative", "llm_join">>,
     <<"llm_tool_agent", "llm_join">>, <<"reporter", "END">>}

EdgesForced ==
    {<<"START", "supervisor">>, <<"supervisor", "screener">>,
     <<"screener", "analyst">>, <<"screener", "news">>,
     <<"analyst", "valuation">>, <<"valuation", "risk">>,
     <<"risk", "join_gate">>, <<"news", "join_gate">>,
     <<"join_gate", "llm_fanout">>,
     <<"llm_fanout", "llm_strategy">>, <<"llm_fanout", "llm_narrative">>,
     <<"llm_fanout", "llm_tool_agent">>,
     <<"llm_strategy", "llm_join">>, <<"llm_narrative", "llm_join">>,
     <<"llm_tool_agent", "llm_join">>, <<"reporter", "END">>}

EdgesSingleBranch ==
    {<<"START", "supervisor">>, <<"supervisor", "screener">>,
     <<"screener", "analyst">>, <<"screener", "news">>,
     <<"analyst", "valuation">>, <<"valuation", "risk">>,
     <<"risk", "join_gate">>,
     <<"llm_fanout", "llm_strategy">>, <<"llm_fanout", "llm_narrative">>,
     <<"llm_fanout", "llm_tool_agent">>,
     <<"llm_strategy", "llm_join">>, <<"llm_narrative", "llm_join">>,
     <<"llm_tool_agent", "llm_join">>, <<"reporter", "END">>}

Edges ==
    {<<"START", "supervisor">>, <<"supervisor", "screener">>,
     <<"screener", "analyst">>, <<"screener", "news">>,
     <<"analyst", "valuation">>, <<"valuation", "risk">>,
     <<"risk", "join_gate">>, <<"news", "join_gate">>,
     <<"llm_fanout", "llm_strategy">>, <<"llm_fanout", "llm_narrative">>,
     <<"llm_fanout", "llm_tool_agent">>,
     <<"llm_strategy", "llm_join">>, <<"llm_narrative", "llm_join">>,
     <<"llm_tool_agent", "llm_join">>, <<"reporter", "END">>}

\* the nodes with a conditional edge, and the plain edge the except branch
\* adds for each when add_conditional_edges raises
Gates == {"join_gate", "llm_join"}
FallbackEdges == {<<"join_gate", "llm_fanout">>, <<"llm_join", "reporter">>}

\* label-to-node maps of the two add_conditional_edges calls
JoinGateMapAlwaysFanout(label) == "llm_fanout"
JoinGateMap(label) == IF label = "ready" THEN "llm_fanout" ELSE "noop"
LlmJoinMap(label) == IF label = "ready" THEN "reporter" ELSE "noop"

\* ------------------------------------------------------ state helpers
\* state.get(field, default)
Get(s, f, d) == IF f \in DOMAIN s THEN s[f] ELSE d

\* writing an update to the channels: named fields take the new value
Merge(s, u) == [f \in (DOMAIN s) \cup (DOMAIN u) |-> IF f \in DOMAIN u THEN u[f] ELSE s[f]]

NoUpdate == [f \in {} |-> <<>>]

VARIABLES
    call,         \* the function called on its own, with its arguments
    ret,          \* what that call returned or raised
    input,        \* the caller's user_input
    condEdges,    \* gates whose add_conditional_edges call succeeded
    toolOk,       \* some tool call of this run has answered ok=True
    state,        \* committed channel values: field -> value, present fields only
    waveStart,    \* channel values at the start of the current wave
    wave,         \* number of the current wave (0 before invoke)
    running,      \* nodes of the current wave that have not executed yet
    writes,       \* node -> update returned, for the nodes executed in this wave
    triggered,    \* nodes triggered for the next wave
    seen,         \* node -> input state the node read in this wave
    sched,        \* node -> number of waves the node was scheduled in
    gateEvals,    \* log of router evaluations
    raisedBy,     \* node whose handler raised, or "none"
    reporterOut,  \* path returned by reporter.run, or "" when it has not run
    pc,           \* "init", "run", "invoked", "done"
    result        \* outcome of run_pipeline

vars == <<call, ret, input, condEdges, toolOk, state, waveStart, wave, running, writes, triggered, seen,
          sched, gateEvals, raisedBy, reporterOut, pc, result>>

\* the plain edges of the graph that was built
EdgesBuilt == Edges \cup {e \in FallbackEdges : e[1] \notin condEdges}

\* the nodes the plain edges leaving n lead to
Successors(n) == {e[2] : e \in {d \in EdgesBuilt : d[1] = n}} \ {"END"}


\* ------------------------------------------------------------- params
\* _default_params: the caller's mapping with the missing keys defaulted.
\* tickers = <<>> stands for None or an empty list (every reader tests its
\* truth value only); max_candidates = 0 stands for None.
_default_paramsNormalizing(user_input) ==
    [tickers |-> [i \in 1..Len(user_input.tickers) |-> Upper(user_input.tickers[i])],
     sector |-> user_input.sector,
     query |-> user_input.query, max_candidates |-> user_input.max_candidates]

_default_params(user_input) ==
    [tickers |-> user_input.tickers, sector |-> user_input.sector,
     query |-> user_input.query, max_candidates |-> user_input.max_candidates]

NoParams == [tickers |-> <<>>, sector |-> FALSE, query |-> FALSE, max_candidates |-> 0]

\* ------------------------------------------------------ input supervisor
RECURSIVE _normalize_from(_, _, _)
_normalize_from(raw, i, norm) ==
    IF i > Len(raw) THEN norm
    ELSE LET u == Upper(raw[i])
         IN IF raw[i] = "" \/ u = "" \/ u \in Range(norm)
            THEN _normalize_from(raw, i + 1, norm)
            ELSE _normalize_from(raw, i + 1, Append(norm, u))

_normalize_tickers(raw) == _normalize_from(raw, 1, <<>>)

Min(a, b) == IF a < b THEN a ELSE b

\* InputSupervisorAgent.run: the state dict after the call
SupervisorRun(s) ==
    LET params == Get(s, "params", NoParams)
        explicit == params.tickers
        normalized == _normalize_tickers(explicit)
        max_candidates == params.max_candidates
        capped == IF max_candidates > 0
                  THEN SubSeq(normalized, 1, Min(max_candidates, Len(normalized)))
                  ELSE normalized
    IN IF explicit # <<>> THEN Merge(s, "candidates" :> capped)
       ELSE IF "candidates" \notin DOMAIN s THEN Merge(s, "candidates" :> <<>>)
       ELSE s

\* ---------------------------------------------------- candidate screener
_extract_symbols(response) ==
    IF ~response.ok THEN {}
    ELSE IF response.data.kind = "list"
         THEN {Upper(response.data.items[i]) : i \in 1..Len(response.data.items)}
         ELSE {}

shortlistSeedOrder(sector, query, seed_tickers, search, top) ==
    [i \in 1..Len(seed_tickers) |-> Upper(seed_tickers[i])]
    \o Sorted(((IF query THEN _extract_symbols(search) ELSE {})
               \cup (IF sector THEN _extract_symbols(top) ELSE {}))
              \ {Upper(seed_tickers[i]) : i \in 1..Len(seed_tickers)})

\* search and top are the responses of search_tool and top_tool
shortlist(sector, query, seed_tickers, search, top) ==
    Sorted({Upper(seed_tickers[i]) : i \in 1..Len(seed_tickers)}
           \cup (IF query THEN _extract_symbols(search) ELSE {})
           \cup (IF sector THEN _extract_symbols(top) ELSE {}))

ScreenerRun(s, search, top) ==
    LET params == Get(s, "params", NoParams)
        seed == params.tickers
        candidates == shortlist(params.sector, params.query, seed, search, top)
        final == IF candidates = <<>> /\ seed # <<>>
                 THEN Sorted({Upper(seed[i]) : i \in 1..Len(seed)})
                 ELSE candidates
    IN Merge(s, "candidates" :> final)

\* -------------------------------------------------- fundamentals analyst
\* get_ticker_info answers with the company profile ("cheap": priced below
\* intrinsic value, "dear": above, "levered": below, with a total debt of
\* four times the latest free cash flow instead of one) or fails;
\* get_price_history answers with
\* the price rows or fails.
InfoResps == {[ok |-> FALSE, profile |-> "none"],
              [ok |-> TRUE, profile |-> "cheap"], [ok |-> TRUE, profile |-> "dear"],
              [ok |-> TRUE, profile |-> "levered"]}
Profiles == {"cheap", "dear", "levered"}
PriceResps == {FailResp, OkResp(<<"close">>)}

_compute_metrics(ticker, info_payload, price_payload) ==
    LET info_data == IF info_payload.ok THEN info_payload.profile ELSE "empty"
        price_data == IF price_payload.ok THEN price_payload.data ELSE ListData(<<>>)
    IN [ticker |-> ticker,
        info |-> info_data,
        price_history |-> IF price_data.kind = "list" THEN price_data.items ELSE <<>>,
        roic |-> info_data \in Profiles,
        fcf_cagr |-> IF info_data \in Profiles THEN "pos" ELSE "none",
        debt_to_fcf |-> IF info_data = "levered" THEN Some(4)
                        ELSE IF info_data \in Profiles THEN Some(1)
                        ELSE None]

AnalystRun(s, info_response, price_response) ==
    LET tickers == Get(s, "candidates", <<>>)
    IN Merge(s, "fundamentals" :>
             [i \in 1..Len(tickers) |-> _compute_metrics(tickers[i], info_response, price_response)])

\* ----------------------------------------------------- news intelligence
\* _collect: [raised, items]; list.extend(None) raises TypeError
NewsResps == {FailResp, OkResp(<<[title |-> "t1", day |-> 1]>>)}

\* params.setdefault("max_news", 30)
DefaultMaxNews == 30

_collectUnguarded(query, primary, secondary) ==
    IF primary.data.kind # "list" THEN [raised |-> TRUE, items |-> <<>>]
    ELSE [raised |-> FALSE,
          items |-> primary.data.items \o
                    (IF query /\ secondary.ok /\ secondary.data.kind = "list"
                     THEN secondary.data.items ELSE <<>>)]

\* primary and secondary are the responses of news_tool and search_tool
_collect(query, primary, secondary) ==
    [raised |-> FALSE,
        items |-> (IF primary.ok /\ primary.data.kind = "list" THEN primary.data.items ELSE <<>>)
                  \o (IF query /\ secondary.ok /\ secondary.data.kind = "list"
                      THEN secondary.data.items ELSE <<>>)]

\* The titles of the model; "" is a missing or empty title.
\* SequenceMatcher(None, a, b).ratio() is a table, in hundredths, from
\* <<a, b>> to the ratio: 100 for a title against itself, 0 against ""
\* and, between different titles, a value below or above the threshold.
Titles == {"", "t1", "t2", "t3"}
TitlePairs == {p \in Titles \X Titles : p[1] # p[2] /\ p[1] # "" /\ p[2] # ""}
RatioOf(off) ==
    [p \in Titles \X Titles |->
        IF p[1] = "" \/ p[2] = "" THEN 0
        ELSE IF p[1] = p[2] THEN 100
        ELSE off[p]]
Ratios == {RatioOf(off) : off \in [TitlePairs -> {80, 95}]}

\* titles that are equal or dissimilar
ExactRatio == RatioOf([p \in TitlePairs |-> 0])

\* similarity_threshold: float = 0.9, in hundredths
DefaultThreshold == 90

RECURSIVE dedup_fromAnyEarlier(_, _, _, _, _)
dedup_fromAnyEarlier(items, i, seen_items, ratio, similarity_threshold) ==
    IF i > Len(items) THEN seen_items
    ELSE IF items[i].title = "" THEN
        dedup_fromAnyEarlier(items, i + 1, Append(seen_items, items[i]), ratio, similarity_threshold)
    ELSE IF \E j \in 1..(i - 1) :
                ratio[<<items[i].title, items[j].title>>] >= similarity_threshold
    THEN dedup_fromAnyEarlier(items, i + 1, seen_items, ratio, similarity_threshold)
    ELSE dedup_fromAnyEarlier(items, i + 1, Append(seen_items, items[i]), ratio, similarity_threshold)

\* the loop of dedup_news from item i on, seen_items being the items kept
RECURSIVE dedup_from(_, _, _, _, _)
dedup_from(items, i, seen_items, ratio, similarity_threshold) ==
    IF i > Len(items) THEN seen_items
    ELSE IF items[i].title = "" THEN
        dedup_from(items, i + 1, Append(seen_items, items[i]), ratio, similarity_threshold)
    ELSE IF \E j \in 1..Len(seen_items) :
                ratio[<<items[i].title, seen_items[j].title>>] >= similarity_threshold
    THEN dedup_from(items, i + 1, seen_items, ratio, similarity_threshold)
    ELSE dedup_from(items, i + 1, Append(seen_items, items[i]), ratio, similarity_threshold)

dedup_news(items, ratio, similarity_threshold) ==
    dedup_from(items, 1, <<>>, ratio, similarity_threshold)

\* insertion of x after the items published on the same day or later
InsertByDay(sorted, x) ==
    LET k == Cardinality({j \in 1..Len(sorted) : sorted[j].day >= x.day})
    IN SubSeq(sorted, 1, k) \o <<x>> \o SubSeq(sorted, k + 1, Len(sorted))

RECURSIVE SortNewestFirst(_, _, _)
SortNewestFirst(items, i, sorted) ==
    IF i > Len(items) THEN sorted
    ELSE SortNewestFirst(items, i + 1, InsertByDay(sorted, items[i]))

\* news_pipeline.filter_by_window: the items published inside the window
\* (day > 0), newest first; day 0 stands for a date before the cutoff or
\* no date
filter_by_window(items) ==
    SortNewestFirst(SelectSeq(items, LAMBDA x : x.day > 0), 1, <<>>)

\* list[:n] for any integer n
Slice(items, n) ==
    IF n >= 0 THEN SubSeq(items, 1, Min(n, Len(items)))
    ELSE SubSeq(items, 1, IF Len(items) + n > 0 THEN Len(items) + n ELSE 0)

analyseUncapped(ticker, query, primary, secondary, max_news) ==
    LET top_items == filter_by_window(dedup_news(_collect(query, primary, secondary).items,
                                                 ExactRatio, DefaultThreshold))
    IN [ticker |-> ticker,
        item_count |-> Len(top_items),
        sentiment |-> IF top_items = <<>> THEN "none" ELSE "score",
        raw_items |-> top_items]

analyse(ticker, query, primary, secondary, max_news) ==
    LET raw_items == _collect(query, primary, secondary).items
        deduped == dedup_news(raw_items, ExactRatio, DefaultThreshold)
        filtered == filter_by_window(deduped)
        top_items == Slice(filtered, max_news)
    IN [ticker |-> ticker,
        item_count |-> Len(top_items),
        sentiment |-> IF top_items = <<>> THEN "none" ELSE "score",
        raw_items |-> top_items]

\* NewsIntelligenceAgent.run: [raised, state]
NewsRun(s, primary, secondary) ==
    LET query == Get(s, "params", NoParams).query
        candidates == Get(s, "candidates", <<>>)
    IN [raised |-> candidates # <<>> /\ _collect(query, primary, secondary).raised,
        state |-> Merge(s, "news_bundle" :>
                     [i \in 1..Len(candidates) |->
                        analyse(candidates[i], query, primary, secondary, DefaultMaxNews)])]

\* --------------------------------------------------------- valuation
\* ValuationModelAgent.evaluate: one entry per fundamentals entry; the
\* midpoint exists when DCF or multiples yield an intrinsic value, the
\* margin of safety when both the midpoint and a latest close exist.
evaluate(fundamentals) ==
    [i \in 1..Len(fundamentals) |->
        LET item == fundamentals[i]
            price == item.price_history # <<>>
            midpoint == item.info \in Profiles
        IN [ticker |-> item.ticker,
            price |-> price,
            mid |-> midpoint,
            margin_of_safety |-> IF midpoint /\ price
                                 THEN (IF item.info = "dear" THEN "neg" ELSE "pos")
                                 ELSE "none"]]

ValuationRun(s) == Merge(s, "valuation" :> evaluate(Get(s, "fundamentals", <<>>)))

\* ---------------------------------------------------- risk assessment
\* valuation_map.get(ticker, {}).get("margin_of_safety")
MosOf(valuations, ticker) ==
    IF \E j \in 1..Len(valuations) : valuations[j].ticker = ticker
    THEN valuations[CHOOSE j \in 1..Len(valuations) :
                      /\ valuations[j].ticker = ticker
                      /\ \A k \in (j+1)..Len(valuations) : valuations[k].ticker # ticker].margin_of_safety
    ELSE "none"

\* leverage_threshold: float = 3.0
LeverageThreshold == 3

\* the flags of one fundamentals entry, in the order they are appended
FlagsOf(item) ==
    (IF item.debt_to_fcf # None /\ item.debt_to_fcf[1] > LeverageThreshold
     THEN <<"High leverage vs FCF">> ELSE <<>>)
    \o (IF item.fcf_cagr = "neg" THEN <<"Negative FCF growth">> ELSE <<>>)

assessIgnoringLeverage(fundamentals, valuations) ==
    [i \in 1..Len(fundamentals) |->
        LET mos == MosOf(valuations, fundamentals[i].ticker)
            allowed == mos = "pos"
        IN [ticker |-> fundamentals[i].ticker,
            flags |-> FlagsOf(fundamentals[i]),
            margin_of_safety |-> mos,
            position_weight |-> IF allowed THEN "max_weight" ELSE "zero",
            allowed |-> allowed]]

\* margin_of_safety is None ("none") or a number, kept by its sign
assess(fundamentals, valuations) ==
    [i \in 1..Len(fundamentals) |->
        LET flags == FlagsOf(fundamentals[i])
            mos == MosOf(valuations, fundamentals[i].ticker)
            allowed == /\ mos # "none"
                       /\ mos = "pos"
                       /\ "High leverage vs FCF" \notin Range(flags)
        IN [ticker |-> fundamentals[i].ticker,
            flags |-> flags,
            margin_of_safety |-> mos,
            position_weight |-> IF allowed THEN "max_weight" ELSE "zero",
            allowed |-> allowed]]

RiskRun(s) ==
    Merge(s, "risk" :> assess(Get(s, "fundamentals", <<>>), Get(s, "valuation", <<>>)))

\* --------------------------------------------- LLM agents (no API key)
RiskOf(risks, ticker) ==
    IF \E j \in 1..Len(risks) : risks[j].ticker = ticker
    THEN risks[CHOOSE j \in 1..Len(risks) :
                 /\ risks[j].ticker = ticker
                 /\ \A k \in (j+1)..Len(risks) : risks[k].ticker # ticker].allowed
    ELSE FALSE

StrategyRun(s) ==
    LET fundamentals == Get(s, "fundamentals", <<>>)
    IN Merge(s, "llm_strategy" :>
         [i \in 1..Len(fundamentals) |->
            LET t == fundamentals[i].ticker
                allowed == RiskOf(Get(s, "risk", <<>>), t)
                mos == MosOf(Get(s, "valuation", <<>>), t)
            IN [ticker |-> t,
                strategy_comment |-> IF allowed /\ mos = "pos" THEN "accumulate"
                                     ELSE IF allowed THEN "watch" ELSE "pass"]])

NewsSentimentOf(news, ticker) ==
    IF \E j \in 1..Len(news) : news[j].ticker = ticker
    THEN news[CHOOSE j \in 1..Len(news) :
                /\ news[j].ticker = ticker
                /\ \A k \in (j+1)..Len(news) : news[k].ticker # ticker].sentiment
    ELSE "none"

NarrativeRun(s) ==
    LET fundamentals_list == Get(s, "fundamentals", <<>>)
    IN Merge(s, "llm_narrative" :>
         [i \in 1..Len(fundamentals_list) |->
            LET f == fundamentals_list[i]
                mos == MosOf(Get(s, "valuation", <<>>), f.ticker)
                sentiment == NewsSentimentOf(Get(s, "news_bundle", <<>>), f.ticker)
            IN [ticker |-> f.ticker,
                narrative |-> IF f.roic \/ mos # "none" \/ sentiment # "none"
                              THEN "bullets" ELSE "lacking"]])

ToolRunAllowedOnly(s) ==
    LET fundamentals == SelectSeq(Get(s, "fundamentals", <<>>),
                                  LAMBDA f : RiskOf(Get(s, "risk", <<>>), f.ticker))
    IN Merge(s, "llm_tool_agent" :>
         [i \in 1..Len(fundamentals) |->
            [ticker |-> fundamentals[i].ticker, tool_summary |-> "no_api_key"]])

ToolRun(s) ==
    LET fundamentals == Get(s, "fundamentals", <<>>)
    IN Merge(s, "llm_tool_agent" :>
         [i \in 1..Len(fundamentals) |->
            [ticker |-> fundamentals[i].ticker, tool_summary |-> "no_api_key"]])

\* ------------------------------------------------------------ reporter
\* _write_report: the path reports_dir / f"{stamp}_{ticker.upper()}.md" of
\* the report file written for a ticker
ReportPath(ticker) ==
    CASE Upper(ticker) = "A" -> "reports/stamp_A.md"
      [] Upper(ticker) = "B" -> "reports/stamp_B.md"
      [] Upper(ticker) = "C" -> "reports/stamp_C.md"

\* the tickers the reporter iterates over
ReportIterable(s) ==
    LET fundamentals == Get(s, "fundamentals", <<>>)
        fallback_candidates == Get(s, "candidates", <<>>)
    IN IF fundamentals # <<>>
       THEN [i \in 1..Len(fundamentals) |-> fundamentals[i].ticker]
       ELSE fallback_candidates

ReporterRunFirst(s) ==
    LET iterable == ReportIterable(s)
    IN IF iterable = <<>> THEN [raised |-> TRUE, path |-> "", written |-> <<>>]
       ELSE [raised |-> FALSE, path |-> ReportPath(iterable[1]),
             written |-> [i \in 1..Len(iterable) |-> ReportPath(iterable[i])]]

\* MarkdownReporterAgent.run: [raised, path, written]; written lists the
\* files in the order they are written; raises RuntimeError when there is
\* neither a fundamentals entry nor a candidate
ReporterRun(s) ==
    LET iterable == ReportIterable(s)
    IN IF iterable = <<>> THEN [raised |-> TRUE, path |-> "", written |-> <<>>]
       ELSE [raised |-> FALSE, path |-> ReportPath(iterable[Len(iterable)]),
             written |-> [i \in 1..Len(iterable) |-> ReportPath(iterable[i])]]

\* ---------------------------------------------------- readiness routers
_join_readyNoRisk(s) ==
    LET candidates == Get(s, "candidates", <<>>)
        news == Get(s, "news_bundle", <<>>)
        has_news == Len(news) >= Len(candidates)
    IN IF has_news THEN "ready" ELSE "wait"

_join_readyStrictNews(s) ==
    LET candidates == Get(s, "candidates", <<>>)
        news == Get(s, "news_bundle", <<>>)
        has_news == Len(news) > Len(candidates)
        has_risk == Get(s, "risk", <<>>) # <<>>
    IN IF has_news /\ has_risk THEN "ready" ELSE "wait"

_join_readyRiskPresent(s) ==
    LET candidates == Get(s, "candidates", <<>>)
        news == Get(s, "news_bundle", <<>>)
        has_news == Len(news) >= Len(candidates)
        has_risk == "risk" \in DOMAIN s
    IN IF has_news /\ has_risk THEN "ready" ELSE "wait"

_join_ready(s) ==
    LET candidates == Get(s, "candidates", <<>>)
        news == Get(s, "news_bundle", <<>>)
        has_news == Len(news) >= Len(candidates)
        has_risk == Get(s, "risk", <<>>) # <<>>
    IN IF has_news /\ has_risk THEN "ready" ELSE "wait"

_llm_readyAny(s) ==
    LET has_strategy == Get(s, "llm_strategy", <<>>) # <<>>
        has_narrative == Get(s, "llm_narrative", <<>>) # <<>>
        has_tool == Get(s, "llm_tool_agent", <<>>) # <<>>
    IN IF has_strategy \/ has_narrative \/ has_tool THEN "ready" ELSE "wait"

_llm_ready(s) ==
    LET has_strategy == Get(s, "llm_strategy", <<>>) # <<>>
        has_narrative == Get(s, "llm_narrative", <<>>) # <<>>
        has_tool == Get(s, "llm_tool_agent", <<>>) # <<>>
    IN IF has_strategy /\ has_narrative /\ has_tool THEN "ready" ELSE "wait"


\* ------------------------------------------------------ the wave engine
Inputs ==
    [tickers : SeqsUpTo(RawTickers, MaxTickers),
     sector : BOOLEAN, query : BOOLEAN,
     max_candidates : 0..MaxCap]

\* the responses a tool can give when it is called, FailResp standing for
\* the tool that is not called
RespsIf(called, resps) == IF called THEN resps ELSE {FailResp}
Answered(called, response) == called /\ response.ok

NoResult == [kind |-> "none", path |-> ""]
Raised(kind) == [kind |-> kind, path |-> ""]
Returned(path) == [kind |-> "returned", path |-> path]

\* no function is called on its own during a pipeline run
NoCall == [fn |-> "none"]

\* the state run_pipeline hands to app.invoke
InitRun ==
    /\ call = NoCall
    /\ ret = NoCall
    /\ toolOk = FALSE
    /\ state = ("params" :> _default_params(input))
    /\ waveStart = state
    /\ wave = 0
    /\ running = {}
    /\ writes = NoUpdate
    /\ triggered = {}
    /\ seen = NoUpdate
    /\ sched = [n \in Nodes |-> 0]
    /\ gateEvals = <<>>
    /\ raisedBy = "none"
    /\ reporterOut = ""
    /\ pc = "init"
    /\ result = NoResult

\* both add_conditional_edges calls succeed (the installed langgraph has
\* the method)
Init ==
    /\ input \in Inputs
    /\ condEdges = Gates
    /\ InitRun

\* app.invoke(initial_state): the first wave runs the successors of START
Invoke ==
    /\ pc = "init"
    /\ pc' = "run"
    /\ wave' = 1
    /\ running' = Successors("START")
    /\ sched' = [n \in Nodes |-> IF n \in Successors("START") THEN 1 ELSE 0]
    /\ UNCHANGED <<call, ret, input, condEdges, toolOk, state, waveStart, writes, triggered, seen, gateEvals,
                   raisedBy, reporterOut, result>>

PendingOverwrite(s) ==
    [f \in UNION {DOMAIN writes[n] : n \in DOMAIN writes} |->
        writes[CHOOSE n \in DOMAIN writes : f \in DOMAIN writes[n]][f]]

\* every update buffered in this wave, applied to the channels
Pending(s) ==
    [f \in (DOMAIN s) \cup UNION {DOMAIN writes[n] : n \in DOMAIN writes} |->
        IF \E n \in DOMAIN writes : f \in DOMAIN writes[n]
        THEN writes[CHOOSE n \in DOMAIN writes : f \in DOMAIN writes[n]][f]
        ELSE s[f]]

NodeInputLeaky == Pending(state)

\* the state a node of the current wave is called with: the channel values
\* committed before the wave
NodeInput == state

\* the state a conditional-edge router is called with: the channel values
\* with the update of its own node applied
RouterInput(update) == Merge(state, update)

\* a node returned `update` and fired the edges to `targets`
Finish(n, update, targets) ==
    /\ running' = running \ {n}
    /\ writes' = writes @@ (n :> update)
    /\ seen' = seen @@ (n :> NodeInput)
    /\ triggered' = triggered \cup targets
    /\ UNCHANGED <<call, ret, input, condEdges, state, waveStart, wave, sched, raisedBy, pc, result>>

PropagateSwallowed(n, kind) ==
    /\ raisedBy' = n
    /\ running' = running \ {n}
    /\ triggered' = triggered \cup Successors(n)
    /\ UNCHANGED <<call, ret, input, condEdges, state, waveStart, wave, writes, seen, sched,
                   gateEvals, reporterOut, pc, result>>

\* a node function raised: no node function and no caller up to run_pipeline
\* catches, so the exception leaves app.invoke and run_pipeline
Propagate(n, kind) ==
    /\ raisedBy' = n
    /\ pc' = "done"
    /\ result' = Raised(kind)
    /\ UNCHANGED <<call, ret, input, condEdges, state, waveStart, wave, running, writes, triggered,
                   seen, sched, gateEvals, reporterOut>>

Active(n) == pc = "run" /\ n \in running

supervisor_node ==
    /\ Active("supervisor")
    /\ Finish("supervisor",
              "candidates" :> Get(SupervisorRun(NodeInput), "candidates", <<>>),
              Successors("supervisor"))
    /\ UNCHANGED <<toolOk, gateEvals, reporterOut>>

screener_node ==
    /\ Active("screener")
    /\ \E search \in RespsIf(NodeInput["params"].query, SymbolResps) :
       \E top \in RespsIf(NodeInput["params"].sector, SymbolResps) :
          /\ Finish("screener",
                    "candidates" :> Get(ScreenerRun(NodeInput, search, top), "candidates", <<>>),
                    Successors("screener"))
          /\ toolOk' = (toolOk \/ Answered(NodeInput["params"].query, search)
                               \/ Answered(NodeInput["params"].sector, top))
    /\ UNCHANGED <<gateEvals, reporterOut>>

\* the tools are called once per candidate
HasCandidates == Get(NodeInput, "candidates", <<>>) # <<>>

analyst_node ==
    /\ Active("analyst")
    /\ \E info \in (IF HasCandidates THEN InfoResps ELSE {[ok |-> FALSE, profile |-> "none"]}) :
       \E price \in RespsIf(HasCandidates, PriceResps) :
          /\ Finish("analyst",
                    "fundamentals" :> Get(AnalystRun(NodeInput, info, price), "fundamentals", <<>>),
                    Successors("analyst"))
          /\ toolOk' = (toolOk \/ Answered(HasCandidates, info)
                               \/ Answered(HasCandidates, price))
    /\ UNCHANGED <<gateEvals, reporterOut>>

news_node ==
    /\ Active("news")
    /\ \E primary \in RespsIf(HasCandidates, NewsResps) :
       \E secondary \in RespsIf(HasCandidates /\ NodeInput["params"].query, NewsResps) :
          /\ toolOk' = (toolOk \/ Answered(HasCandidates, primary)
                               \/ Answered(HasCandidates /\ NodeInput["params"].query, secondary))
          /\ IF NewsRun(NodeInput, primary, secondary).raised
             THEN Propagate("news", "TypeError")
             ELSE Finish("news",
                         "news_bundle" :> Get(NewsRun(NodeInput, primary, secondary).state,
                                              "news_bundle", <<>>),
                         Successors("news"))
                  /\ UNCHANGED <<gateEvals, reporterOut>>

valuation_node ==
    /\ Active("valuation")
    /\ Finish("valuation",
              "valuation" :> Get(ValuationRun(NodeInput), "valuation", <<>>),
              Successors("valuation"))
    /\ UNCHANGED <<toolOk, gateEvals, reporterOut>>

risk_nodeWholeState == RiskRun(NodeInput)

\* the update risk_node returns
risk_nodeUpdate == "risk" :> Get(RiskRun(NodeInput), "risk", <<>>)

risk_node ==
    /\ Active("risk")
    /\ Finish("risk", risk_nodeUpdate, Successors("risk"))
    /\ UNCHANGED <<toolOk, gateEvals, reporterOut>>

\* a gate node returns {}; its conditional edge, when installed, routes on
\* the label, and its plain edges fire as for any node
Gate(n, label, target) ==
    /\ Active(n)
    /\ IF n \in condEdges
       THEN /\ Finish(n, NoUpdate, {target} \cup Successors(n))
            /\ gateEvals' = Append(gateEvals,
                               [gate |-> n, wave |-> wave, label |-> label,
                                fields |-> DOMAIN RouterInput(NoUpdate),
                                riskLen |-> Len(Get(RouterInput(NoUpdate), "risk", <<>>))])
       ELSE /\ Finish(n, NoUpdate, Successors(n))
            /\ UNCHANGED gateEvals
    /\ UNCHANGED <<toolOk, reporterOut>>

join_gate_node ==
    Gate("join_gate", _join_ready(RouterInput(NoUpdate)),
         JoinGateMap(_join_ready(RouterInput(NoUpdate))))

llm_fanout_node ==
    /\ Active("llm_fanout")
    /\ Finish("llm_fanout", NoUpdate, Successors("llm_fanout"))
    /\ UNCHANGED <<toolOk, gateEvals, reporterOut>>

llm_strategy_node ==
    /\ Active("llm_strategy")
    /\ Finish("llm_strategy",
              "llm_strategy" :> Get(StrategyRun(NodeInput), "llm_strategy", <<>>),
              Successors("llm_strategy"))
    /\ UNCHANGED <<toolOk, gateEvals, reporterOut>>

llm_narrative_node ==
    /\ Active("llm_narrative")
    /\ Finish("llm_narrative",
              "llm_narrative" :> Get(NarrativeRun(NodeInput), "llm_narrative", <<>>),
              Successors("llm_narrative"))
    /\ UNCHANGED <<toolOk, gateEvals, reporterOut>>

llm_tool_node ==
    /\ Active("llm_tool_agent")
    /\ Finish("llm_tool_agent",
              "llm_tool_agent" :> Get(ToolRun(NodeInput), "llm_tool_agent", <<>>),
              Successors("llm_tool_agent"))
    /\ UNCHANGED <<toolOk, gateEvals, reporterOut>>

llm_join_node ==
    Gate("llm_join", _llm_ready(RouterInput(NoUpdate)),
         LlmJoinMap(_llm_ready(RouterInput(NoUpdate))))

reporter_node ==
    /\ Active("reporter")
    /\ IF ReporterRun(NodeInput).raised
       THEN Propagate("reporter", "RuntimeError") /\ UNCHANGED toolOk
       ELSE /\ Finish("reporter", "report_path" :> ReporterRun(NodeInput).path,
                      Successors("reporter"))
            /\ reporterOut' = ReporterRun(NodeInput).path
            /\ UNCHANGED <<toolOk, gateEvals>>

\* noop_node returns the state it was called with
noop_node ==
    /\ Active("noop")
    /\ Finish("noop", NodeInput, Successors("noop"))
    /\ UNCHANGED <<toolOk, gateEvals, reporterOut>>

\* nodes whose handler can fail for a reason outside the pipeline's data:
\* the LLM agents build their client outside any try block, the reporter
\* writes files
FallibleNodes == LLMNodes \cup {"reporter"}

HandlerFails ==
    \E n \in FallibleNodes :
        /\ Active(n)
        /\ Propagate(n, "external")
        /\ UNCHANGED toolOk

\* two nodes of the wave wrote the same key
Conflict ==
    \E n \in DOMAIN writes : \E m \in DOMAIN writes :
        n # m /\ (DOMAIN writes[n]) \cap (DOMAIN writes[m]) # {}

\* end of a wave: every node of the wave has returned; the buffered updates
\* are written and the triggered nodes form the next wave; with no node
\* triggered, invoke returns the final state
Barrier ==
    /\ pc = "run"
    /\ running = {}
    /\ IF Conflict
       THEN /\ pc' = "done"
            /\ result' = Raised("InvalidUpdateError")
            /\ UNCHANGED <<state, waveStart, wave, running, writes, triggered, seen, sched>>
       ELSE /\ state' = Pending(state)
            /\ waveStart' = Pending(state)
            /\ writes' = NoUpdate
            /\ seen' = NoUpdate
            /\ triggered' = {}
            /\ running' = triggered
            /\ sched' = [n \in Nodes |-> IF n \in triggered THEN sched[n] + 1 ELSE sched[n]]
            /\ wave' = IF triggered = {} THEN wave ELSE wave + 1
            /\ pc' = IF triggered = {} THEN "invoked" ELSE "run"
            /\ UNCHANGED result
    /\ UNCHANGED <<call, ret, input, condEdges, toolOk, gateEvals, raisedBy, reporterOut>>

run_pipelineReturnUnchecked == Returned(Get(state, "report_path", ""))

\* the value run_pipeline ends with once invoke has returned final_state
run_pipelineReturn ==
    LET report_path == Get(state, "report_path", "")
    IN IF report_path = "" THEN Raised("RuntimeError") ELSE Returned(report_path)

Return ==
    /\ pc = "invoked"
    /\ pc' = "done"
    /\ result' = run_pipelineReturn
    /\ UNCHANGED <<call, ret, input, condEdges, toolOk, state, waveStart, wave, running, writes, triggered,
                   seen, sched, gateEvals, raisedBy, reporterOut>>

Next ==
    \/ Invoke
    \/ supervisor_node
    \/ screener_node
    \/ analyst_node
    \/ news_node
    \/ valuation_node
    \/ risk_node
    \/ join_gate_node
    \/ llm_fanout_node
    \/ llm_strategy_node
    \/ llm_narrative_node
    \/ llm_tool_node
    \/ llm_join_node
    \/ reporter_node
    \/ noop_node
    \/ HandlerFails
    \/ Barrier
    \/ Return

Spec == Init /\ [][Next]_vars

\* every graph run_pipeline can build: each add_conditional_edges call
\* either succeeds or raises and is replaced by its plain edge
InitAnyGraph ==
    /\ input \in Inputs
    /\ condEdges \in SUBSET Gates
    /\ InitRun

SpecAnyGraph == InitAnyGraph /\ [][Next]_vars


\* ============================================ functions called on their own
\* The pipeline variables while a single function is exercised: no run is
\* in progress.
NoRun ==
    /\ input = NoParams
    /\ condEdges = Gates
    /\ toolOk = FALSE
    /\ state = NoUpdate
    /\ waveStart = NoUpdate
    /\ wave = 0
    /\ running = {}
    /\ writes = NoUpdate
    /\ triggered = {}
    /\ seen = NoUpdate
    /\ sched = [n \in Nodes |-> 0]
    /\ gateEvals = <<>>
    /\ raisedBy = "none"
    /\ reporterOut = ""
    /\ result = NoResult

\* the function returns or raises: only ret and pc change
Returns(value) ==
    /\ pc = "call"
    /\ pc' = "returned"
    /\ ret' = value
    /\ UNCHANGED <<call, input, condEdges, toolOk, state, waveStart, wave, running,
                   writes, triggered, seen, sched, gateEvals, raisedBy, reporterOut,
                   result>>

\* ------------------------------------------- tools/yfinance_client.py
ToolNames == {"search", "get_top", "get_ticker_info", "get_price_history",
              "get_ticker_news"}

\* the symbol keyword of a call: a string, absent (None), or a value that
\* is not a string
SymbolArgs == {"str", "absent", "other"}

\* what the data provider does when it is reached: it answers, or raises
\* an exception of some class
ProviderOutcomes == {"data", "RuntimeError", "AttributeError", "HTTPError"}

ToolCalls ==
    [fn : ToolNames, symbol : SymbolArgs, argsValid : BOOLEAN,
     provider : ProviderOutcomes, http : {"data", "HTTPError"}]

ToolReturned(ok, data, error) ==
    [kind |-> "returned", ok |-> ok, data |-> data, error |-> error]
ToolRaised(exc) ==
    [kind |-> "raised", ok |-> FALSE, data |-> "None", error |-> exc]

\* ToolMeta(tool=..., symbol=symbol, ...): symbol is Optional[str], and the
\* model's validation rejects any other value
_meta(symbol) == IF symbol = "other" THEN "ValidationError" ELSE "meta"

_ok(data, symbol) ==
    IF _meta(symbol) = "ValidationError" THEN ToolRaised("ValidationError")
    ELSE ToolReturned(TRUE, data, "None")

_fail(exc, symbol) ==
    IF _meta(symbol) = "ValidationError" THEN ToolRaised("ValidationError")
    ELSE ToolReturned(FALSE, "None", exc)

\* <X>Input.model_validate(kwargs): TRUE when it raises ValidationError.
\* symbol is a required str of TickerInfoInput and PriceHistoryInput, an
\* Optional[str] of NewsInput, and no field of SearchInput and GetTopInput.
ValidationRaises(c) ==
    \/ ~c.argsValid
    \/ c.fn \in {"get_ticker_info", "get_price_history"} /\ c.symbol # "str"
    \/ c.fn = "get_ticker_news" /\ c.symbol = "other"

\* search: a failure of the yfinance search falls back to the HTTP search,
\* whose failure reaches the outer except
yf_search(c) ==
    IF ValidationRaises(c) THEN _fail("ValidationError", "absent")
    ELSE IF c.provider = "data" \/ c.http = "data" THEN _ok("list", "absent")
    ELSE _fail(c.http, "absent")

yf_get_top(c) ==
    IF ValidationRaises(c) THEN _fail("ValidationError", "absent")
    ELSE IF c.provider = "data" THEN _ok("list", "absent")
    ELSE _fail(c.provider, "absent")

\* get_ticker_info and get_price_history hand kwargs.get("symbol") to _fail
\* and the validated payload.symbol to _ok
yf_get_ticker_info(c) ==
    IF ValidationRaises(c) THEN _fail("ValidationError", c.symbol)
    ELSE IF c.provider = "data" THEN _ok("dict", "str")
    ELSE _fail(c.provider, c.symbol)

yf_get_price_history(c) ==
    IF ValidationRaises(c) THEN _fail("ValidationError", c.symbol)
    ELSE IF c.provider = "data" THEN _ok("list", "str")
    ELSE _fail(c.provider, c.symbol)

yf_get_ticker_news(c) ==
    IF ValidationRaises(c) THEN _fail("ValidationError", c.symbol)
    ELSE IF c.provider = "data" THEN _ok("list", c.symbol)
    ELSE _fail(c.provider, c.symbol)

InitTools ==
    /\ call \in ToolCalls
    /\ ret = NoCall
    /\ pc = "call"
    /\ NoRun

CallSearch == call.fn = "search" /\ Returns(yf_search(call))
CallGetTop == call.fn = "get_top" /\ Returns(yf_get_top(call))
CallGetTickerInfo == call.fn = "get_ticker_info" /\ Returns(yf_get_ticker_info(call))
CallGetPriceHistory == call.fn = "get_price_history" /\ Returns(yf_get_price_history(call))
CallGetTickerNews == call.fn = "get_ticker_news" /\ Returns(yf_get_ticker_news(call))

NextTools ==
    \/ CallSearch
    \/ CallGetTop
    \/ CallGetTickerInfo
    \/ CallGetPriceHistory
    \/ CallGetTickerNews

SpecTools == InitTools /\ [][NextTools]_vars


\* ------------------------------------------- agents/news_intelligence.py
\* the stories a provider feed can hold: a title and the day of publication
\* (0: outside the window)
NewsItems == [title : {"t1", "t2"}, day : 0..2]
Feeds == SeqsUpTo(NewsItems, MaxFeed)

\* Field(gt=0, le=100) of NewsInput.max_items and SearchInput.max_items
MaxItemsLimit == 100

\* get_ticker_news(symbol=ticker, max_items=max_items) and search(query=...,
\* search_type="news", max_items=max_items) over a provider feed: a
\* max_items outside 1..100 fails validation, otherwise items[:max_items]
NewsToolResp(feed, max_items) ==
    IF max_items < 1 \/ max_items > MaxItemsLimit THEN FailResp
    ELSE OkResp(Slice(feed, max_items))

AnalyseCalls ==
    {c \in [fn : {"analyse"}, max_news : (-1)..MaxNews, query : BOOLEAN,
            feed : Feeds, search_feed : Feeds] :
        ~c.query => c.search_feed = <<>>}

InitNews ==
    /\ call \in AnalyseCalls
    /\ ret = NoCall
    /\ pc = "call"
    /\ NoRun

\* NewsIntelligenceAgent(max_news=...).analyse(ticker, query)
CallAnalyse ==
    /\ call.fn = "analyse"
    /\ Returns(analyse("A", call.query,
                       NewsToolResp(call.feed, call.max_news),
                       NewsToolResp(call.search_feed, call.max_news),
                       call.max_news))

NextNews == CallAnalyse

SpecNews == InitNews /\ [][NextNews]_vars


\* --------------------------------------------------- valuation/*.py
\* Optional[float]: None is the empty tuple, a number v the tuple <<v>>.
\* Floats are exact rationals [num, den] with den > 0 in lowest terms.

Abs(n) == IF n < 0 THEN -n ELSE n

RECURSIVE Gcd(_, _)
Gcd(a, b) == IF b = 0 THEN a ELSE Gcd(b, a % b)

\* the rational n/d, d # 0
Frac(n, d) ==
    LET g == Gcd(Abs(n), Abs(d))
        s == IF d < 0 THEN -1 ELSE 1
    IN [num |-> s * (n \div g), den |-> s * (d \div g)]

Num(n) == Frac(n, 1)
RAdd(a, b) == Frac(a.num * b.den + b.num * a.den, a.den * b.den)
RSub(a, b) == Frac(a.num * b.den - b.num * a.den, a.den * b.den)
RMul(a, b) == Frac(a.num * b.num, a.den * b.den)
\* a / b; the caller has checked b # 0
RDiv(a, b) == Frac(a.num * b.den, a.den * b.num)
RPos(a) == a.num > 0
RZero(a) == a.num = 0

\* multiples._safe_float: None stays None, a number becomes a float
_safe_float(value) == IF value = None THEN None ELSE Some(Num(value[1]))

\* truth value of an Optional[float]: neither None nor 0.0
Truthy(x) == x # None /\ ~RZero(x[1])

MultiplesRaised(exc) ==
    [raised |-> exc, pe |-> None, ps |-> None, ev_ebit |-> None,
     intrinsic_value_per_share |-> None]

valuation_from_multiplesNoFloor(price0, eps0, revenue0, ebit0, shares_outstanding, terminal_multiple) ==
    LET price == _safe_float(price0)
        eps == _safe_float(eps0)
        revenue == _safe_float(revenue0)
        ebit == _safe_float(ebit0)
        shares == Num(shares_outstanding)
        tm == Num(terminal_multiple)
        takes_ebit == Truthy(ebit) /\ RPos(ebit[1]) /\ RPos(shares)
    IN IF Truthy(price) /\ Truthy(revenue) /\ RZero(shares)
       THEN MultiplesRaised("ZeroDivisionError")
       ELSE [raised |-> "none",
             pe |-> IF Truthy(price) /\ Truthy(eps) THEN Some(RDiv(price[1], eps[1])) ELSE None,
             ps |-> IF Truthy(price) /\ Truthy(revenue)
                    THEN Some(RDiv(price[1], RDiv(revenue[1], shares))) ELSE None,
             ev_ebit |-> IF takes_ebit THEN Some(RDiv(RMul(ebit[1], tm), ebit[1])) ELSE None,
             intrinsic_value_per_share |->
                 IF takes_ebit THEN Some(RDiv(RMul(ebit[1], tm), shares))
                 ELSE IF Truthy(eps) /\ RPos(eps[1]) THEN Some(RMul(eps[1], tm))
                 ELSE None]

\* every division of the function is guarded as in the code; a division
\* whose divisor is zero raises ZeroDivisionError
valuation_from_multiples(price0, eps0, revenue0, ebit0, shares_outstanding, terminal_multiple) ==
    LET price == _safe_float(price0)
        eps == _safe_float(eps0)
        revenue == _safe_float(revenue0)
        ebit == _safe_float(ebit0)
        shares == IF shares_outstanding > 0 THEN Num(shares_outstanding) ELSE Num(1)
        tm == Num(terminal_multiple)
        has_pe == Truthy(price) /\ Truthy(eps) /\ ~RZero(eps[1])
        has_ps == Truthy(price) /\ Truthy(revenue)
        takes_ebit == Truthy(ebit) /\ RPos(ebit[1]) /\ RPos(shares)
        takes_eps == ~takes_ebit /\ Truthy(eps) /\ RPos(eps[1])
    IN IF has_ps /\ (RZero(shares) \/ RZero(RDiv(revenue[1], shares)))
       THEN MultiplesRaised("ZeroDivisionError")
       ELSE [raised |-> "none",
             pe |-> IF has_pe THEN Some(RDiv(price[1], eps[1])) ELSE None,
             ps |-> IF has_ps THEN Some(RDiv(price[1], RDiv(revenue[1], shares))) ELSE None,
             ev_ebit |-> IF takes_ebit THEN Some(RDiv(RMul(ebit[1], tm), ebit[1])) ELSE None,
             intrinsic_value_per_share |->
                 IF takes_ebit THEN Some(RDiv(RMul(ebit[1], tm), shares))
                 ELSE IF takes_eps THEN Some(RMul(eps[1], tm))
                 ELSE None]

\* the arguments the function is exercised on
OptionalAmounts == {None, Some(-4), Some(0), Some(5), Some(150)}
ShareCounts == {-1, 0, 1, 2}
Multiples == {0, 15}

MultiplesCalls ==
    [fn : {"valuation_from_multiples"}, price : {None, Some(0), Some(150)},
     eps : OptionalAmounts, revenue : {None, Some(0), Some(5)}, ebit : OptionalAmounts,
     shares_outstanding : ShareCounts, terminal_multiple : Multiples]

CallMultiples ==
    /\ call.fn = "valuation_from_multiples"
    /\ Returns(valuation_from_multiples(call.price, call.eps, call.revenue, call.ebit,
                                        call.shares_outstanding, call.terminal_multiple))


\* dcf._initial_fcf: the last value of the series that is not None
_initial_fcfFirst(series) ==
    LET values == SelectSeq(series, LAMBDA v : v # None)
    IN IF values = <<>> THEN None ELSE Some(Num(values[1][1]))

_initial_fcf(series) ==
    LET values == SelectSeq(series, LAMBDA v : v # None)
    IN IF values = <<>> THEN None ELSE Some(Num(values[Len(values)][1]))

RECURSIVE _project_cash_flows(_, _, _)
_project_cash_flows(latest_fcf, growth_rate, years) ==
    IF years = 0 THEN <<>>
    ELSE LET current == RMul(latest_fcf, RAdd(Num(1), growth_rate))
         IN <<current>> \o _project_cash_flows(current, growth_rate, years - 1)

RECURSIVE RPow(_, _)
RPow(a, k) == IF k = 0 THEN Num(1) ELSE RMul(a, RPow(a, k - 1))

RECURSIVE PresentValue(_, _, _)
\* the sum of flow / (1 + discount_rate) ** year over the first n flows
PresentValue(projected, discount_rate, n) ==
    IF n = 0 THEN Num(0)
    ELSE RAdd(PresentValue(projected, discount_rate, n - 1),
              RDiv(projected[n], RPow(RAdd(Num(1), discount_rate), n)))

DcfResult(projected, present_value, terminal_value, enterprise_value, intrinsic) ==
    [raised |-> "none", projected_fcf |-> projected, present_value |-> present_value,
     terminal_value |-> terminal_value, enterprise_value |-> enterprise_value,
     intrinsic_value_per_share |-> intrinsic]

\* the rates are rationals; a discount rate of -1 makes the discount factor
\* zero and the division raise
discounted_cash_flow(free_cash_flows, discount_rate, growth_rate, terminal_growth, shares_outstanding, horizon_years) ==
    LET latest_fcf == _initial_fcf(free_cash_flows)
    IN IF latest_fcf = None \/ shares_outstanding <= 0
       THEN DcfResult(<<>>, Num(0), Num(0), Num(0), None)
       ELSE IF RZero(RAdd(Num(1), discount_rate))
       THEN [raised |-> "ZeroDivisionError", projected_fcf |-> <<>>,
             present_value |-> Num(0), terminal_value |-> Num(0),
             enterprise_value |-> Num(0), intrinsic_value_per_share |-> None]
       ELSE
         LET projected == _project_cash_flows(latest_fcf[1], growth_rate, horizon_years)
             present_value == PresentValue(projected, discount_rate, Len(projected))
             terminal_value ==
                 IF RPos(RSub(discount_rate, terminal_growth))
                 THEN RDiv(RMul(projected[Len(projected)], RAdd(Num(1), terminal_growth)),
                           RSub(discount_rate, terminal_growth))
                 ELSE Num(0)
             terminal_present_value ==
                 RDiv(terminal_value, RPow(RAdd(Num(1), discount_rate), horizon_years))
             enterprise_value == RAdd(present_value, terminal_present_value)
         IN DcfResult(projected, present_value, terminal_value, enterprise_value,
                      IF RPos(enterprise_value)
                      THEN Some(RDiv(enterprise_value, Num(shares_outstanding)))
                      ELSE None)

\* horizon_years: int = 5
DefaultHorizon == 5

\* the arguments the function is exercised on; the rates are chosen so that
\* five years of compounding stay within machine integers
CashFlows == {None, Some(-100), Some(70)}
DcfCalls ==
    [fn : {"discounted_cash_flow"}, free_cash_flows : SeqsUpTo(CashFlows, MaxSeries),
     discount_rate : {Num(1)}, growth_rate : {Num(-2), Num(0), Num(1)},
     terminal_growth : {Num(0), Num(1)}, shares_outstanding : ShareCounts]

CallDcf ==
    /\ call.fn = "discounted_cash_flow"
    /\ Returns(discounted_cash_flow(call.free_cash_flows, call.discount_rate,
                                    call.growth_rate, call.terminal_growth,
                                    call.shares_outstanding, DefaultHorizon))

InitValuation ==
    /\ call \in MultiplesCalls \cup DcfCalls
    /\ ret = NoCall
    /\ pc = "call"
    /\ NoRun

NextValuation ==
    \/ CallMultiples
    \/ CallDcf

SpecValuation == InitValuation /\ [][NextValuation]_vars


\* ------------------------------------------------- nlp/news_pipeline.py
\* news items as dedup_news reads them: a title and the day of publication
TitledItems == [title : Titles, day : {1}]

DedupCalls ==
    [fn : {"dedup_news"}, items : SeqsUpTo(TitledItems, MaxDedup), ratio : Ratios,
     similarity_threshold : {DefaultThreshold, 100}]

CallDedup ==
    /\ call.fn = "dedup_news"
    /\ Returns(dedup_news(call.items, call.ratio, call.similarity_threshold))


\* news items as summarize_items reads them: a title and a content, each
\* possibly missing or empty ("")
TextItems == [title : {"", "t1"}, content : {"", "text"}]

\* a bullet: the title (or "Item") and, when the item has content, the
\* first sentence of the content after it
Bullet(item) ==
    [title |-> IF item.title = "" THEN "Item" ELSE item.title,
     lead |-> item.content]
Placeholder == [title |-> "No additional material.", lead |-> ""]

\* the for loop of summarize_items from item i on
RECURSIVE summarize_from(_, _, _, _)
summarize_from(items, i, bullets, max_items) ==
    IF i > Len(items) THEN bullets
    ELSE LET appended == Append(bullets, Bullet(items[i]))
         IN IF Len(appended) >= max_items THEN appended
            ELSE summarize_from(items, i + 1, appended, max_items)

Max(a, b) == IF a > b THEN a ELSE b

summarize_itemsUnpadded(items, min_items, max_items) ==
    summarize_from(items, 1, <<>>, max_items)

summarize_items(items, min_items, max_items) ==
    LET bullets == summarize_from(items, 1, <<>>, max_items)
    IN bullets \o [k \in 1..Max(min_items - Len(bullets), 0) |-> Placeholder]

\* min_items: int = 3, max_items: int = 6
DefaultMinItems == 3
DefaultMaxItems == 6

\* the (min_items, max_items) pairs the function is exercised on
BulletLimits == {<<DefaultMinItems, DefaultMaxItems>>, <<1, 2>>, <<0, 0>>, <<3, 2>>}

SummarizeCalls ==
    [fn : {"summarize_items"}, items : SeqsUpTo(TextItems, MaxSummarize),
     limits : BulletLimits]

CallSummarize ==
    /\ call.fn = "summarize_items"
    /\ Returns(summarize_items(call.items, call.limits[1], call.limits[2]))

\* news items as sentiment reads them: whether title and content give any
\* text, and how many of the positive and of the negative words occur in it
ScoredItems ==
    {[has_text |-> FALSE, positive_hits |-> 0, negative_hits |-> 0]}
    \cup [has_text : {TRUE}, positive_hits : 0..2, negative_hits : 0..2]

RLe(a, b) == a.num * b.den <= b.num * a.den
RMin(a, b) == IF RLe(a, b) THEN a ELSE b
RMax(a, b) == IF RLe(a, b) THEN b ELSE a

RECURSIVE SumOver(_, _)
\* the sum of f[i] over i in 1..n
SumOver(f, n) == IF n = 0 THEN 0 ELSE SumOver(f, n - 1) + f[n]

sentimentPerItem(items) ==
    LET with_text == SelectSeq(items, LAMBDA x : x.has_text)
        score == SumOver([i \in 1..Len(with_text) |->
                            with_text[i].positive_hits - with_text[i].negative_hits],
                         Len(with_text))
    IN IF Len(with_text) = 0 THEN None
       ELSE Some(RMax(Num(-1), RMin(Num(1), Frac(score, Max(Len(items), 1)))))

sentiment(items) ==
    LET with_text == SelectSeq(items, LAMBDA x : x.has_text)
        total == Len(with_text)
        score == SumOver([i \in 1..total |->
                            with_text[i].positive_hits - with_text[i].negative_hits], total)
    IN IF total = 0 THEN None
       ELSE Some(RMax(Num(-1), RMin(Num(1), Frac(score, Max(total, 1)))))

SentimentCalls == [fn : {"sentiment"}, items : SeqsUpTo(ScoredItems, MaxScored)]

CallSentiment ==
    /\ call.fn = "sentiment"
    /\ Returns(sentiment(call.items))

InitNlp ==
    /\ call \in DedupCalls \cup SummarizeCalls \cup SentimentCalls
    /\ ret = NoCall
    /\ pc = "call"
    /\ NoRun

NextNlp ==
    \/ CallDedup
    \/ CallSummarize
    \/ CallSentiment

SpecNlp == InitNlp /\ [][NextNlp]_vars


\* ------------------------------------------------ readiness predicates
\* the lists a shared-state field can hold, by length
GateLists == SeqsUpTo({[ticker |-> "AAPL"]}, MaxTickers)

\* the shared states a router can be evaluated on: any of the fields it
\* reads may be missing, empty or filled
StatesOver(fields) == UNION {[present -> GateLists] : present \in SUBSET fields}
JoinFields == {"candidates", "news_bundle", "risk"}
LlmFields == {"llm_strategy", "llm_narrative", "llm_tool_agent"}

InitGates ==
    /\ \/ call = [fn |-> "_join_ready"] /\ state \in StatesOver(JoinFields)
       \/ call = [fn |-> "_llm_ready"] /\ state \in StatesOver(LlmFields)
    /\ ret = NoCall
    /\ pc = "call"
    /\ input = NoParams
    /\ condEdges = Gates
    /\ toolOk = FALSE
    /\ waveStart = state
    /\ wave = 0
    /\ running = {}
    /\ writes = NoUpdate
    /\ triggered = {}
    /\ seen = NoUpdate
    /\ sched = [n \in Nodes |-> 0]
    /\ gateEvals = <<>>
    /\ raisedBy = "none"
    /\ reporterOut = ""
    /\ result = NoResult

\* the routers only read the state (state.get)
Call_join_ready ==
    /\ call.fn = "_join_ready"
    /\ Returns(_join_ready(state))

Call_llm_ready ==
    /\ call.fn = "_llm_ready"
    /\ Returns(_llm_ready(state))

NextGates ==
    \/ Call_join_ready
    \/ Call_llm_ready

SpecGates == InitGates /\ [][NextGates]_vars


\* ------------------------------------------------------ risk assessment
\* the metrics assess reads from a fundamentals entry, and valuation entries
AssessedItems == [ticker : {"AAPL", "MSFT"}, debt_to_fcf : {None, Some(3), Some(4)}, fcf_cagr : {"none", "neg"}]
ValuedItems == [ticker : {"AAPL", "MSFT"}, margin_of_safety : {"none", "neg", "zero", "pos"}]
AssessCalls == [fn : {"assess"}, fundamentals : SeqsUpTo(AssessedItems, MaxAssessed), valuations : SeqsUpTo(ValuedItems, MaxAssessed)]

CallAssess ==
    /\ call.fn = "assess"
    /\ Returns(assess(call.fundamentals, call.valuations))

InitRisk ==
    /\ call \in AssessCalls
    /\ ret = NoCall
    /\ pc = "call"
    /\ NoRun

NextRisk == CallAssess

SpecRisk == InitRisk /\ [][NextRisk]_vars


\* ---------------------------------------------------- candidate screener
\* the symbols a tool lists, in any order and any case, repeated or not
ListedSymbols == {"b", "c", "C"}
ListingResps == {FailResp} \cup {OkResp(items) : items \in SeqsUpTo(ListedSymbols, MaxTickers)}
ScreenerCalls == [fn : {"screener_run"}, sector : BOOLEAN, query : BOOLEAN, tickers : SeqsUpTo(RawTickers, MaxTickers), search : ListingResps, top : ListingResps]

\* CandidateScreenerAgent.run on a state that holds the parameters
CallScreener ==
    /\ call.fn = "screener_run"
    /\ LET params == [tickers |-> call.tickers, sector |-> call.sector,
                      query |-> call.query, max_candidates |-> 0]
       IN Returns(Get(ScreenerRun("params" :> params,
                                  IF call.query THEN call.search ELSE FailResp,
                                  IF call.sector THEN call.top ELSE FailResp),
                      "candidates", <<>>))

InitScreener ==
    /\ call \in ScreenerCalls
    /\ ret = NoCall
    /\ pc = "call"
    /\ NoRun

NextScreener == CallScreener

SpecScreener == InitScreener /\ [][NextScreener]_vars


\* ------------------------------------------------------------- reporter
\* the states reporter_node can be called on: fundamentals entries and
\* candidates, each possibly missing or empty
ReportedItems == [ticker : RawTickers]
ReporterStates == UNION {[present -> SeqsUpTo(RawTickers, MaxTickers)] : present \in SUBSET {"candidates"}}
ReporterCalls == {[fn |-> "reporter_node", fundamentals |-> f, rest |-> s] : f \in SeqsUpTo(ReportedItems, MaxTickers), s \in ReporterStates}

\* reporter_node called on a state: the update it returns, or the
\* RuntimeError of reporter.run, and the files written
CallReporter ==
    /\ call.fn = "reporter_node"
    /\ LET s == Merge(call.rest, "fundamentals" :> call.fundamentals)
       IN Returns(IF ReporterRun(s).raised
                  THEN [raised |-> "RuntimeError", update |-> NoUpdate, written |-> <<>>]
                  ELSE [raised |-> "none",
                        update |-> ("report_path" :> ReporterRun(s).path),
                        written |-> ReporterRun(s).written])

InitReporter ==
    /\ call \in ReporterCalls
    /\ ret = NoCall
    /\ pc = "call"
    /\ NoRun

\* the reporter called on its own, or by a pipeline run
InitReporting == Init \/ InitReporter
NextReporting == Next \/ CallReporter
SpecReporter == InitReporting /\ [][NextReporting]_vars


\* ================================================================ claims
InWave == running \cup DOMAIN writes
FanoutStage == {"llm_fanout"} \cup LLMNodes
EvalsOf(g) == SelectSeq(gateEvals, LAMBDA e : e.gate = g)
ReadyBefore(g, w) ==
    \E i \in 1..Len(gateEvals) :
        gateEvals[i].gate = g /\ gateEvals[i].label = "ready" /\ gateEvals[i].wave < w

\* C1: llm_fanout and the three LLM nodes are each scheduled at most once
\* in a run, only in a wave after an evaluation of _join_ready that returned
\* "ready" (llm_fanout in the very next wave), and exactly once as soon as
\* that wave has started, although join_gate is evaluated once per arrival.
C1_NoDuplicateFanout ==
    /\ \A n \in FanoutStage :
          /\ sched[n] <= 1
          /\ (n \in InWave => ReadyBefore("join_gate", wave))
    /\ ("llm_fanout" \in InWave =>
          /\ gateEvals[Len(gateEvals)].gate = "join_gate"
          /\ gateEvals[Len(gateEvals)].label = "ready"
          /\ gateEvals[Len(gateEvals)].wave + 1 = wave)
    /\ (ReadyBefore("join_gate", wave) => sched["llm_fanout"] = 1)
    /\ (ReadyBefore("join_gate", wave - 1) => \A n \in LLMNodes : sched[n] = 1)

C1_Witness ==
    /\ pc = "done"
    /\ result.kind = "returned"
    /\ Len(EvalsOf("join_gate")) = 2
    /\ \A n \in FanoutStage : sched[n] = 1

\* C2: no node of the LLM stage (llm_fanout, llm_strategy, llm_narrative,
\* llm_tool_agent) is in a wave unless news_bundle and risk were both
\* written to the shared state before that wave started.
C2_FanInBeforeLLM ==
    (InWave \cap FanoutStage # {}) =>
        /\ {"news_bundle", "risk"} \subseteq DOMAIN waveStart
        /\ {"news", "risk"} \cap InWave = {}
        /\ sched["news"] = 1 /\ sched["risk"] = 1

C2_Witness == "llm_strategy" \in DOMAIN writes /\ "risk" \in DOMAIN waveStart

\* C3: reporter is in a wave only when the three LLM nodes have each run,
\* none of them is still in that wave and their three fields are in the
\* shared state; reporter is scheduled at most once, and exactly once after
\* llm_join found the LLM outputs ready.
C3_FanInBeforeReport ==
    /\ sched["reporter"] <= 1
    /\ ("reporter" \in InWave =>
          /\ LLMNodes \subseteq DOMAIN waveStart
          /\ LLMNodes \cap InWave = {}
          /\ \A n \in LLMNodes : sched[n] = 1)
    /\ (ReadyBefore("llm_join", wave) => sched["reporter"] = 1)
    /\ sched["llm_join"] <= 1

C3_Witness == "reporter" \in DOMAIN writes /\ Len(EvalsOf("llm_join")) = 1

\* the candidate list the screener left is non-empty
ScreenedNonEmpty == wave > 2 /\ Get(state, "candidates", <<>>) # <<>>

\* C4: when the candidate list after the screener is non-empty the run
\* never goes beyond wave 10 and is never stuck before run_pipeline is over
\* (a step is always possible), and unless a handler raised it is over in
\* wave 10 with reporter having run once and run_pipeline returning the
\* report path.
C4_Termination ==
    ScreenedNonEmpty =>
        /\ wave <= 10
        /\ (pc # "done" => ENABLED Next)
        /\ (pc \in {"invoked", "done"} /\ raisedBy = "none" =>
              /\ wave = 10
              /\ sched["reporter"] = 1
              /\ state["report_path"] = reporterOut)
        /\ (pc = "done" /\ raisedBy = "none" =>
              /\ result.kind = "returned"
              /\ result.path = reporterOut)

C4_Witness == pc = "done" /\ result.kind = "returned" /\ wave = 10

\* C5: when run_pipeline is over and the reporter has not written
\* report_path, run_pipeline has raised and returned no path; when it has
\* returned, the path is the report_path the reporter wrote in this run.
C5_ReturnsOrFails ==
    pc = "done" =>
        /\ result.kind # "none"
        /\ ("report_path" \notin DOMAIN state =>
              result.kind # "returned" /\ result.path = "")
        /\ (reporterOut = "" => result.kind # "returned")
        /\ (result.kind = "returned" =>
              /\ reporterOut # ""
              /\ result.path = reporterOut
              /\ state["report_path"] = reporterOut)

C5_Witness ==
    /\ pc = "done"
    /\ result.kind = "RuntimeError"
    /\ raisedBy = "none"
    /\ running = {} /\ triggered = {}

\* C6 as stated: the evaluation of _join_ready triggered by the later branch
\* sees news_bundle and risk and returns "ready", the earlier one having
\* returned "wait".
C6_LaterEvaluationReady ==
    Len(EvalsOf("join_gate")) >= 2 =>
        /\ EvalsOf("join_gate")[1].label = "wait"
        /\ {"news_bundle", "risk"} \subseteq EvalsOf("join_gate")[2].fields
        /\ EvalsOf("join_gate")[2].label = "ready"

\* C6 (amended): news and risk reach join_gate in different waves; the
\* earlier evaluation returns "wait"; the later one reads a state holding
\* both news_bundle and risk and returns "ready" exactly when the risk list
\* is non-empty, whatever the earlier evaluation returned.
C6_LaterEvaluationReflectsState ==
    /\ Len(EvalsOf("join_gate")) <= 2
    /\ (Len(EvalsOf("join_gate")) >= 1 =>
          /\ EvalsOf("join_gate")[1].label = "wait"
          /\ "risk" \notin EvalsOf("join_gate")[1].fields)
    /\ (Len(EvalsOf("join_gate")) >= 2 =>
          /\ EvalsOf("join_gate")[1].wave < EvalsOf("join_gate")[2].wave
          /\ {"news_bundle", "risk"} \subseteq EvalsOf("join_gate")[2].fields
          /\ (EvalsOf("join_gate")[2].label = "ready"
                <=> EvalsOf("join_gate")[2].riskLen > 0))

C6_Witness ==
    /\ Len(EvalsOf("join_gate")) = 2
    /\ EvalsOf("join_gate")[1].label = "wait"
    /\ EvalsOf("join_gate")[2].label = "ready"

C8_NoWriteConflict ==
    /\ \A n \in DOMAIN writes : \A m \in (DOMAIN writes) \ {n} :
          (DOMAIN writes[n]) \cap (DOMAIN writes[m]) = {}
    /\ ("noop" \in DOMAIN writes => DOMAIN writes["noop"] = DOMAIN seen["noop"])
    /\ \A g \in {"join_gate", "llm_join", "llm_fanout"} \cap DOMAIN writes :
          DOMAIN writes[g] = {}
    /\ result.kind # "InvalidUpdateError"

C8_Witness == {"risk", "noop"} \subseteq DOMAIN writes

AllToolsFail == ~toolOk

\* C10: when every tool call answers ok=False, data=None and the ticker list
\* is non-empty, no agent raises on the missing data, each stage leaves its
\* degraded output (empty info, no news item, no margin of safety, not
\* allowed, "pass"), and the run reaches the reporter and returns a path
\* unless a handler failed for an outside reason.
C10_AbsencePropagation ==
    (AllToolsFail /\ input.tickers # <<>>) =>
        /\ result.kind \notin {"TypeError", "RuntimeError", "InvalidUpdateError"}
        /\ (pc = "done" /\ result.kind # "external" =>
              result.kind = "returned" /\ sched["reporter"] = 1)
        /\ (wave > 2 => Get(state, "candidates", <<>>) # <<>>)
        /\ \A i \in 1..Len(Get(state, "fundamentals", <<>>)) :
              state["fundamentals"][i].info = "empty" /\ state["fundamentals"][i].price_history = <<>>
        /\ \A i \in 1..Len(Get(state, "news_bundle", <<>>)) :
              state["news_bundle"][i].item_count = 0
        /\ \A i \in 1..Len(Get(state, "valuation", <<>>)) :
              state["valuation"][i].margin_of_safety = "none"
        /\ \A i \in 1..Len(Get(state, "risk", <<>>)) :
              ~state["risk"][i].allowed /\ state["risk"][i].position_weight = "zero"
        /\ \A i \in 1..Len(Get(state, "llm_strategy", <<>>)) :
              state["llm_strategy"][i].strategy_comment = "pass"
        /\ \A i \in 1..Len(Get(state, "llm_narrative", <<>>)) :
              state["llm_narrative"][i].narrative = "lacking"

C10_Witness ==
    /\ AllToolsFail
    /\ input.query /\ input.sector
    /\ input.tickers # <<>>
    /\ pc = "done"
    /\ result.kind = "returned"
    /\ Len(state["risk"]) > 0

\* C11 as stated: when the caller supplies tickers and a positive
\* max_candidates, the candidates field analyst and news read, the
\* fundamentals entries and the news entries number at most max_candidates.
C11_CandidateCap ==
    (input.tickers # <<>> /\ input.max_candidates > 0) =>
        /\ \A n \in {"analyst", "news"} \cap DOMAIN seen :
              Len(Get(seen[n], "candidates", <<>>)) <= input.max_candidates
        /\ Len(Get(state, "fundamentals", <<>>)) <= input.max_candidates
        /\ Len(Get(state, "news_bundle", <<>>)) <= input.max_candidates

\* the router evaluation a gate made in the current wave
EvalNow(g) ==
    gateEvals[CHOOSE i \in 1..Len(gateEvals) :
                 gateEvals[i].gate = g /\ gateEvals[i].wave = wave]
GateTargets == {"llm_fanout", "reporter", "noop"}

\* C12: each evaluation of a conditional router schedules exactly one
\* successor: once join_gate has executed in a wave, _join_ready was
\* evaluated once in that wave and the gate targets triggered are llm_fanout
\* alone on "ready" and noop alone on "wait"; likewise llm_join triggers
\* reporter alone on "ready" and noop alone on "wait".
C12_ExactlyOneSuccessor ==
    \A g \in Gates \cap DOMAIN writes :
        /\ Cardinality({i \in 1..Len(gateEvals) :
                          gateEvals[i].gate = g /\ gateEvals[i].wave = wave}) = 1
        /\ triggered \cap GateTargets =
              {IF EvalNow(g).label = "ready"
               THEN (IF g = "join_gate" THEN "llm_fanout" ELSE "reporter")
               ELSE "noop"}

C12_Witness ==
    /\ "llm_join" \in DOMAIN writes
    /\ "reporter" \in triggered
    /\ Len(EvalsOf("join_gate")) = 2
    /\ EvalsOf("join_gate")[1].label = "wait"
    /\ EvalsOf("join_gate")[2].label = "ready"

\* C13 as stated: in every graph run_pipeline can build, llm_fanout is
\* triggered by an arrival at join_gate only when _join_ready holds of the
\* state at that arrival, and reporter by an arrival at llm_join only when
\* _llm_ready holds.
C13_NoForcedAdvance ==
    /\ ("join_gate" \in DOMAIN writes /\ "llm_fanout" \in triggered =>
          _join_ready(RouterInput(NoUpdate)) = "ready")
    /\ ("llm_join" \in DOMAIN writes /\ "reporter" \in triggered =>
          _llm_ready(RouterInput(NoUpdate)) = "ready")

\* the field each step node returns in its update
FieldOf(n) == CASE n = "screener" -> "candidates"
                [] n = "analyst" -> "fundamentals"
                [] n = "news" -> "news_bundle"
                [] n = "reporter" -> "report_path"
                [] OTHER -> n
StepNodes == {"screener", "analyst", "news", "valuation", "risk", "reporter"} \cup LLMNodes
Writers(f) == {n \in DOMAIN writes : f \in DOMAIN writes[n]}

\* C14: the update of each of screener, analyst, news, valuation, risk, the
\* three LLM nodes and reporter names exactly that node's one field; when a
\* wave's updates are merged every field some update names takes the
\* update's value and every other field of the shared state keeps its
\* presence and its value; no other step changes the shared state, and no
\* merge fails (candidates, written by supervisor and again by screener one
\* wave later, takes the screener's value).
C14_MergeNamedFieldsOnly ==
    /\ [](/\ \A n \in StepNodes \cap DOMAIN writes : DOMAIN writes[n] = {FieldOf(n)}
          /\ result.kind # "InvalidUpdateError")
    /\ [][\A f \in Fields :
            IF Writers(f) # {} /\ writes' = NoUpdate
            THEN /\ f \in DOMAIN state'
                 /\ \A n \in Writers(f) : state'[f] = writes[n][f]
            ELSE /\ (f \in DOMAIN state') <=> (f \in DOMAIN state)
                 /\ (f \in DOMAIN state => state'[f] = state[f])]_vars

C14_Witness ==
    /\ wave = 3
    /\ input.max_candidates > 0
    /\ Len(state["candidates"]) > input.max_candidates
    /\ "analyst" \in DOMAIN writes
    /\ DOMAIN state = {"params", "candidates"}

PassThroughNodes == {"join_gate", "llm_join", "llm_fanout", "noop"}

\* C15 as stated: every execution of join_gate, llm_join, llm_fanout and
\* noop returns an update that names no field.
C15_PassThroughNamesNoField ==
    \A n \in PassThroughNodes \cap DOMAIN writes : DOMAIN writes[n] = {}

\* the data provider or the input validation raised during the call
ToolFailureCase ==
    \/ ValidationRaises(call)
    \/ call.fn = "search" /\ call.provider # "data" /\ call.http # "data"
    \/ call.fn # "search" /\ call.provider # "data"

\* C16 as stated: a tool wrapper never propagates an exception; when the
\* data provider or the input validation raised, it returns ok=False,
\* data=None and error.type equal to the exception's class name; and in
\* every response returned ok is true exactly when error is None.
C16_FailureAsValue ==
    pc = "returned" =>
        /\ ret.kind = "returned"
        /\ (ret.ok <=> ret.error = "None")
        /\ (ToolFailureCase =>
              /\ ~ret.ok
              /\ ret.data = "None"
              /\ ret.error = (IF ValidationRaises(call) THEN "ValidationError"
                              ELSE IF call.fn = "search" THEN call.http
                              ELSE call.provider))

\* C17 as stated: for every max_news the news agent keeps at most max_news
\* items for a ticker, and item_count is the length of raw_items.
C17_NewsCap ==
    (pc = "returned" /\ call.fn = "analyse") =>
        /\ ret.item_count = Len(ret.raw_items)
        /\ ret.item_count <= call.max_news

\* C17 (amended): for every max_news that is not negative the news agent
\* keeps at most max_news items for a ticker (item_count equals the length
\* of raw_items and is at most max_news), also when a query is set and the
\* ticker feed and the query search each return max_news items.
C17_NewsCapNonNegative ==
    (pc = "returned" /\ call.fn = "analyse") =>
        /\ ret.item_count = Len(ret.raw_items)
        /\ (call.max_news >= 0 => ret.item_count <= call.max_news)

C17_Witness ==
    /\ pc = "returned" /\ call.fn = "analyse"
    /\ call.query
    /\ call.max_news = 1
    /\ Len(call.feed) >= 1 /\ Len(call.search_feed) >= 1
    /\ call.feed[1].day > 0 /\ call.search_feed[1].day > 0
    /\ call.feed[1].title # call.search_feed[1].title
    /\ ret.item_count = 1

\* the mapping the caller handed to run_pipeline, missing keys defaulted
SeededParams ==
    [tickers |-> input.tickers, sector |-> input.sector,
     query |-> input.query, max_candidates |-> input.max_candidates]

\* C18: params is never changed by a node: in every reachable state of a
\* run the params field of the shared state, the params every node was
\* called with and every update that names params hold the mapping seeded
\* from the caller's input at run start.
C18_ParamsOpaque ==
    /\ "params" \in DOMAIN state /\ state["params"] = SeededParams
    /\ waveStart["params"] = SeededParams
    /\ \A n \in DOMAIN seen : seen[n]["params"] = SeededParams
    /\ \A n \in DOMAIN writes :
          "params" \in DOMAIN writes[n] => writes[n]["params"] = SeededParams

C18_Witness ==
    /\ pc = "done"
    /\ result.kind = "returned"
    /\ sched["noop"] = 1
    /\ input.tickers = <<"a", "b">>
    /\ input.max_candidates = 1
    /\ state["candidates"] = <<"A", "B">>

\* C19: valuation_from_multiples raises on no input; its
\* intrinsic_value_per_share is ebit * terminal_multiple / shares when
\* ebit > 0, otherwise eps * terminal_multiple when eps > 0 (5 * 15 = 75),
\* otherwise None, where shares is shares_outstanding, or 1 when
\* shares_outstanding <= 0; and pe is None whenever price or eps is missing
\* or zero.
C19_Multiples ==
    (pc = "returned" /\ call.fn = "valuation_from_multiples") =>
        LET shares == IF call.shares_outstanding > 0 THEN call.shares_outstanding ELSE 1
            ebit_positive == call.ebit # None /\ call.ebit[1] > 0
            eps_positive == call.eps # None /\ call.eps[1] > 0
        IN /\ ret.raised = "none"
           /\ ret.intrinsic_value_per_share =
                 (IF ebit_positive
                  THEN Some(Frac(call.ebit[1] * call.terminal_multiple, shares))
                  ELSE IF eps_positive
                  THEN Some(Num(call.eps[1] * call.terminal_multiple))
                  ELSE None)
           /\ ((call.price \in {None, Some(0)} \/ call.eps \in {None, Some(0)}) =>
                 ret.pe = None)

C19_Witness ==
    /\ pc = "returned" /\ call.fn = "valuation_from_multiples"
    /\ call.price = Some(150) /\ call.eps = Some(5) /\ call.revenue = Some(5)
    /\ call.ebit = None /\ call.shares_outstanding = 0 /\ call.terminal_multiple = 15
    /\ ret.intrinsic_value_per_share = Some(Num(75))
    /\ ret.pe = Some(Num(30))
    /\ ret.ps = Some(Num(30))

\* C20: discounted_cash_flow on a series with no non-None value, or with
\* shares_outstanding <= 0, returns intrinsic_value_per_share None,
\* enterprise_value 0 and an empty projection; otherwise the projection
\* has one flow per year, compounded from the last non-None cash flow alone
\* (earlier values, negative or not, have no effect), and
\* intrinsic_value_per_share is non-None exactly when enterprise_value > 0.
C20_DcfDegenerate ==
    (pc = "returned" /\ call.fn = "discounted_cash_flow") =>
        LET values == SelectSeq(call.free_cash_flows, LAMBDA v : v # None)
            factor == RAdd(Num(1), call.growth_rate)
        IN IF values = <<>> \/ call.shares_outstanding <= 0
           THEN /\ ret.intrinsic_value_per_share = None
                /\ ret.enterprise_value = Num(0)
                /\ ret.projected_fcf = <<>>
           ELSE /\ Len(ret.projected_fcf) = DefaultHorizon
                /\ ret.projected_fcf[1] = RMul(Num(values[Len(values)][1]), factor)
                /\ \A k \in 1..(DefaultHorizon - 1) :
                      ret.projected_fcf[k + 1] = RMul(ret.projected_fcf[k], factor)
                /\ (ret.intrinsic_value_per_share # None <=> RPos(ret.enterprise_value))

C20_Witness ==
    /\ pc = "returned" /\ call.fn = "discounted_cash_flow"
    /\ call.free_cash_flows = <<Some(-100), Some(70), None>>
    /\ call.shares_outstanding = 2
    /\ ret.intrinsic_value_per_share # None
    /\ RPos(ret.enterprise_value)

\* the items of x at the indices in K, in order
SubseqAt(x, K) ==
    [k \in 1..Cardinality(K) |-> x[CHOOSE i \in K : Cardinality({j \in K : j <= i}) = k]]

\* C21: dedup_news returns the items at an index set K of its input, in
\* the original order, where an index is outside K exactly when its item has
\* a title and an earlier index of K holds a title whose similarity to it is
\* at or above the threshold (so an item without a title is always in K);
\* and dedup_news of the result is the result.
C21_DedupKeepsFirst ==
    (pc = "returned" /\ call.fn = "dedup_news") =>
        /\ \E K \in SUBSET (1..Len(call.items)) :
              /\ ret = SubseqAt(call.items, K)
              /\ \A i \in 1..Len(call.items) :
                    i \notin K <=>
                       /\ call.items[i].title # ""
                       /\ \E j \in K :
                             /\ j < i
                             /\ call.ratio[<<call.items[i].title, call.items[j].title>>]
                                   >= call.similarity_threshold
        /\ dedup_news(ret, call.ratio, call.similarity_threshold) = ret

C21_Witness ==
    /\ pc = "returned" /\ call.fn = "dedup_news"
    /\ call.similarity_threshold = DefaultThreshold
    /\ Len(call.items) = 3
    /\ call.items[1].title = "t1" /\ call.items[2].title = "t2" /\ call.items[3].title = "t3"
    /\ call.ratio[<<"t2", "t1">>] = 95
    /\ call.ratio[<<"t3", "t2">>] = 95
    /\ call.ratio[<<"t3", "t1">>] = 80
    /\ ret = <<call.items[1], call.items[3]>>

\* the bullets are the headlines of the leading items followed by
\* placeholders only
HeadlinesThenPlaceholders ==
    \E n \in 0..Len(ret) :
        /\ n <= Len(call.items)
        /\ \A k \in 1..n : ret[k] = Bullet(call.items[k])
        /\ \A k \in (n + 1)..Len(ret) : ret[k] = Placeholder

\* C22 as stated: for every input the number of bullets is at least
\* min_items and at most max_items, missing bullets being placeholders.
C22_BulletBounds ==
    (pc = "returned" /\ call.fn = "summarize_items") =>
        /\ Len(ret) >= call.limits[1]
        /\ Len(ret) <= call.limits[2]
        /\ HeadlinesThenPlaceholders

\* C22 (amended): for every list of items, empty lists and items with
\* empty content included, the number of bullets is at least min_items, and
\* it is at most max_items whenever max_items >= 1 and min_items <=
\* max_items (as with the defaults 3 and 6); the bullets are the headlines
\* of the leading items, and below min_items they are filled up with the
\* placeholder.
C22_BulletBoundsWhenOrdered ==
    (pc = "returned" /\ call.fn = "summarize_items") =>
        /\ Len(ret) >= call.limits[1]
        /\ (call.limits[2] >= 1 /\ call.limits[1] <= call.limits[2] =>
              Len(ret) <= call.limits[2])
        /\ HeadlinesThenPlaceholders
        /\ (Len(call.items) < call.limits[1] =>
              /\ Len(ret) = call.limits[1]
              /\ \A k \in (Len(call.items) + 1)..Len(ret) : ret[k] = Placeholder)

C22_Witness ==
    /\ pc = "returned" /\ call.fn = "summarize_items"
    /\ call.limits = <<DefaultMinItems, DefaultMaxItems>>
    /\ Len(call.items) = 7
    /\ call.items[1].content = ""
    /\ Len(ret) = 6

\* C23: sentiment returns None exactly when no item has any title or
\* content text; otherwise it returns the sum of positive hits minus
\* negative hits over the items with text, divided by the number of items
\* with text, or 1 (or -1) when that quotient is above 1 (below -1).
C23_SentimentBounded ==
    (pc = "returned" /\ call.fn = "sentiment") =>
        LET idx == {i \in 1..Len(call.items) : call.items[i].has_text}
            total == Cardinality(idx)
            score == SumOver([i \in 1..Len(call.items) |->
                                IF i \in idx
                                THEN call.items[i].positive_hits - call.items[i].negative_hits
                                ELSE 0], Len(call.items))
        IN /\ (ret = None <=> total = 0)
           /\ (total > 0 =>
                 /\ ret[1].den > 0
                 /\ -ret[1].den <= ret[1].num /\ ret[1].num <= ret[1].den
                 /\ (score > total => ret[1] = Num(1))
                 /\ (score < -total => ret[1] = Num(-1))
                 /\ (-total <= score /\ score <= total =>
                       ret[1].num * total = score * ret[1].den))

C23_Witness ==
    /\ pc = "returned" /\ call.fn = "sentiment"
    /\ Len(call.items) = 3
    /\ ~call.items[1].has_text
    /\ call.items[2].positive_hits = 2 /\ call.items[2].negative_hits = 0
    /\ call.items[3].positive_hits = 1 /\ call.items[3].negative_hits = 0
    /\ ret = Some(Num(1))

\* the length of the list in a field, 0 when the field is missing
LenOf(f) == IF f \in DOMAIN state THEN Len(state[f]) ELSE 0

\* C24: _join_ready returns 'ready' exactly when news_bundle has at least
\* as many entries as candidates and risk is non-empty, and 'wait'
\* otherwise; _llm_ready returns 'ready' exactly when llm_strategy,
\* llm_narrative and llm_tool_agent are all non-empty, and 'wait' otherwise;
\* evaluating either leaves the shared state as it was.
C24_ReadinessExactAndPure ==
    /\ [](pc = "returned" =>
            /\ ret \in {"ready", "wait"}
            /\ (call.fn = "_join_ready" =>
                  (ret = "ready" <=>
                     /\ LenOf("news_bundle") >= LenOf("candidates")
                     /\ LenOf("risk") > 0))
            /\ (call.fn = "_llm_ready" =>
                  (ret = "ready" <=> \A f \in LlmFields : LenOf(f) > 0)))
    /\ [][state' = state]_vars

C24_Witness ==
    /\ pc = "returned" /\ call.fn = "_llm_ready"
    /\ LenOf("llm_strategy") > 0
    /\ LenOf("llm_narrative") > 0
    /\ "llm_tool_agent" \in DOMAIN state /\ LenOf("llm_tool_agent") = 0
    /\ ret = "wait"

\* the steps ahead of the join gate
UpstreamNodes == {"supervisor", "screener", "analyst", "news", "valuation", "risk"}

\* C25: no node ahead of the join gate is scheduled twice and join_gate is
\* evaluated at most twice; in a run with a non-empty candidate list noop is
\* scheduled at most once, and when such a run has ended every node ahead
\* of the join gate ran exactly once and join_gate was evaluated exactly
\* twice: in the wave after news, before risk was written, returning
\* 'wait', and in the wave after risk, returning 'ready'.
C25_ExecutionCounts ==
    /\ \A n \in UpstreamNodes : sched[n] <= 1
    /\ Len(EvalsOf("join_gate")) <= 2
    /\ (ScreenedNonEmpty => sched["noop"] <= 1)
    /\ (pc = "done" /\ ScreenedNonEmpty =>
          /\ \A n \in UpstreamNodes : sched[n] = 1
          /\ sched["join_gate"] = 2
          /\ Len(EvalsOf("join_gate")) = 2
          /\ EvalsOf("join_gate")[1].label = "wait"
          /\ EvalsOf("join_gate")[1].wave = 4
          /\ "news_bundle" \in EvalsOf("join_gate")[1].fields
          /\ "risk" \notin EvalsOf("join_gate")[1].fields
          /\ EvalsOf("join_gate")[2].label = "ready"
          /\ EvalsOf("join_gate")[2].wave = 6
          /\ "risk" \in EvalsOf("join_gate")[2].fields)

C25_Witness ==
    /\ pc = "done"
    /\ ScreenedNonEmpty
    /\ Len(EvalsOf("join_gate")) = 2
    /\ sched["noop"] = 1
    /\ sched["risk"] = 1

\* the screener left an empty candidate list
ScreenedEmpty == wave > 2 /\ Get(state, "candidates", <<>>) = <<>>

\* C26: once the screener has left an empty candidate list, risk is never
\* non-empty, every evaluation of _join_ready returns 'wait', none of
\* llm_fanout, the LLM nodes, llm_join and reporter is ever scheduled, the
\* last wave of the run holds noop alone, and run_pipeline ends with
\* RuntimeError and no path.
C26_EmptyCandidatesFail ==
    ScreenedEmpty =>
        /\ Get(state, "risk", <<>>) = <<>>
        /\ \A k \in 1..Len(gateEvals) :
              gateEvals[k].gate = "join_gate" /\ gateEvals[k].label = "wait"
        /\ \A n \in FanoutStage \cup {"llm_join", "reporter"} : sched[n] = 0
        /\ "report_path" \notin DOMAIN state
        /\ (pc = "run" /\ running = {} /\ triggered = {} => DOMAIN writes = {"noop"})
        /\ (pc \in {"invoked", "done"} =>
              /\ Len(gateEvals) = 2
              /\ sched["noop"] = 2
              /\ raisedBy = "none")
        /\ (pc = "done" => result = Raised("RuntimeError"))

C26_Witness ==
    /\ ScreenedEmpty
    /\ pc = "done"
    /\ "risk" \in DOMAIN state
    /\ Len(EvalsOf("join_gate")) = 2
    /\ result.kind = "RuntimeError"
    /\ sched["noop"] = 2

\* the per-ticker lists of the shared state
ListFields == {"fundamentals", "news_bundle", "valuation", "risk", "llm_strategy", "llm_narrative", "llm_tool_agent"}

\* a list holds one entry per candidate, in candidate order
Aligned(list, candidates) ==
    /\ Len(list) = Len(candidates)
    /\ \A i \in 1..Len(list) : list[i].ticker = candidates[i]

\* C27: from the wave after the screener on, each of fundamentals,
\* news_bundle, valuation, risk, llm_strategy, llm_narrative and
\* llm_tool_agent, both as returned by its node and as held in the shared
\* state afterwards, has exactly one entry per candidate, in candidate
\* order and with the candidate's ticker.
C27_PerTickerAlignment ==
    LET candidates == Get(state, "candidates", <<>>)
    IN /\ \A f \in ListFields \cap DOMAIN state : Aligned(state[f], candidates)
       /\ \A n \in DOMAIN writes : \A f \in ListFields \cap DOMAIN writes[n] :
             Aligned(writes[n][f], candidates)
       /\ (ListFields \cap DOMAIN state # {} => wave > 3)

C27_Witness ==
    /\ ListFields \subseteq DOMAIN state
    /\ Len(state["candidates"]) = 2
    /\ state["candidates"][1] # state["candidates"][2]
    /\ state["risk"][1].flags # <<>> /\ ~state["risk"][2].allowed
    /\ state["news_bundle"][2].item_count > 0

\* C28: for every fundamentals entry, assess returns one entry with the
\* same ticker whose flags hold 'High leverage vs FCF' exactly when
\* debt_to_fcf is present and above the threshold, whose allowed is true
\* exactly when the ticker has a valuation with a margin of safety that is
\* present and above zero and the leverage flag is absent, and whose
\* position_weight is max_weight when allowed and 0 otherwise.
C28_ConservativeSizing ==
    (pc = "returned" /\ call.fn = "assess") =>
        /\ Len(ret) = Len(call.fundamentals)
        /\ \A i \in 1..Len(ret) :
              LET item == call.fundamentals[i]
                  mine == {j \in 1..Len(call.valuations) : call.valuations[j].ticker = item.ticker}
                  levered == \E d \in 0..(LeverageThreshold + 1) :
                                 item.debt_to_fcf = Some(d) /\ d > LeverageThreshold
              IN /\ ret[i].ticker = item.ticker
                 /\ ("High leverage vs FCF" \in Range(ret[i].flags) <=> levered)
                 /\ (ret[i].allowed <=>
                        /\ mine # {}
                        /\ \A j \in mine : (\A k \in mine : k <= j) =>
                              call.valuations[j].margin_of_safety = "pos"
                        /\ ~levered)
                 /\ (mine = {} => ~ret[i].allowed)
                 /\ ret[i].position_weight = (IF ret[i].allowed THEN "max_weight" ELSE "zero")

C28_Witness ==
    /\ pc = "returned" /\ call.fn = "assess"
    /\ Len(ret) = 2
    /\ call.fundamentals[1].debt_to_fcf = Some(4)
    /\ call.fundamentals[2].debt_to_fcf = Some(LeverageThreshold)
    /\ call.fundamentals[2].fcf_cagr = "neg"
    /\ ret[1].margin_of_safety = "pos" /\ ~ret[1].allowed /\ ret[1].position_weight = "zero"
    /\ ret[2].margin_of_safety = "pos" /\ ret[2].allowed /\ ret[2].position_weight = "max_weight"

\* the symbols of a tool response that answered with a list
SymbolSet(called, response) ==
    IF called /\ response.ok
    THEN {Upper(response.data.items[i]) : i \in 1..Len(response.data.items)}
    ELSE {}

\* C29: the candidate list of the screener holds upper-cased symbols only,
\* is strictly ascending (sorted, no duplicate), and its members are exactly
\* the upper-cased seed tickers and the upper-cased symbols of the
\* responses of the tools called; being the one ascending list of a set
\* that is built from the seed set and the symbol sets, it is the same for
\* every order and repetition of the seeds and of the listed symbols.
C29_DeterministicCandidates ==
    (pc = "returned" /\ call.fn = "screener_run") =>
        /\ \A i \in 1..Len(ret) : ret[i] \in Symbols /\ Upper(ret[i]) = ret[i]
        /\ \A i \in 1..Len(ret) : \A j \in 1..Len(ret) :
              i < j => Rank(ret[i]) < Rank(ret[j])
        /\ Range(ret) = {Upper(t) : t \in Range(call.tickers)}
                        \cup SymbolSet(call.query, call.search)
                        \cup SymbolSet(call.sector, call.top)

C29_Witness ==
    /\ pc = "returned" /\ call.fn = "screener_run"
    /\ call.tickers = <<"b", "a">>
    /\ call.query /\ call.search = OkResp(<<"c", "C">>)
    /\ call.sector /\ call.top = OkResp(<<"c", "b">>)
    /\ ret = <<"A", "B", "C">>

\* C30: reporter_node writes one report file per fundamentals entry, or per
\* candidate when there is no fundamentals entry, in list order, and
\* returns as report_path the path of the last one; with neither it raises
\* RuntimeError, writes no file and returns no report_path; the path
\* run_pipeline returns is the report path of the last fundamentals entry.
C30_ReporterOutput ==
    /\ (pc = "returned" /\ call.fn = "reporter_node" =>
          LET tickers == IF call.fundamentals # <<>>
                         THEN [i \in 1..Len(call.fundamentals) |-> call.fundamentals[i].ticker]
                         ELSE Get(call.rest, "candidates", <<>>)
          IN /\ Len(ret.written) = Len(tickers)
             /\ \A i \in 1..Len(tickers) : ret.written[i] = ReportPath(tickers[i])
             /\ (tickers # <<>> =>
                   /\ ret.raised = "none"
                   /\ ret.update = ("report_path" :> ret.written[Len(tickers)]))
             /\ (tickers = <<>> =>
                   /\ ret.raised = "RuntimeError"
                   /\ ret.update = NoUpdate))
    /\ (pc = "done" /\ result.kind = "returned" =>
          /\ state["fundamentals"] # <<>>
          /\ result.path = ReportPath(state["fundamentals"][Len(state["fundamentals"])].ticker)
          /\ state["report_path"] = result.path)

C30_Witness ==
    /\ pc = "returned" /\ call.fn = "reporter_node"
    /\ call.fundamentals = <<>>
    /\ call.rest = ("candidates" :> <<"b", "a">>)
    /\ ret.written = <<"reports/stamp_B.md", "reports/stamp_A.md">>
    /\ ret.update = ("report_path" :> "reports/stamp_A.md")

====
